---- MODULE Spec2Model ----
(***************************************************************************)
(* The reader and the writer of geo_svg_io.                                *)
(*                                                                         *)
(* Spec: the path-data interpreter of geo_svg_reader, the loop of          *)
(* svg_d_path_to_geometry_collection over the tokens of a path, the        *)
(* classification of the collected subpaths by                             *)
(* parse_path_segments_to_geom, and the single-geometry entry point        *)
(* svg_d_path_to_geometry.                                                 *)
(*                                                                         *)
(* WriterSpec: to_svg and to_svg_string of geo_svg_writer applied to a     *)
(* geometry, and the interpreter applied to the path data that             *)
(* to_svg_string returned.                                                 *)
(*                                                                         *)
(* ElementSpec: the loop of svg_to_geometry_collection over the elements   *)
(* of a document.                                                          *)
(*                                                                         *)
(* Coordinates are f64 in the program.  Here a value v is the integer      *)
(* v * Unit (fixed point, Unit = NSamples^3), which is exact for every     *)
(* value the interpreter computes from integral and half-integral          *)
(* arguments: sums, differences, and De Casteljau interpolation at the     *)
(* parameters k / NSamples.  Rounding of f64 is not modelled.  A String    *)
(* is the sequence of its characters.                                      *)
(***************************************************************************)
EXTENDS Integers, Sequences, FiniteSets, TLC

\* The literal 100 of the flattening loops: `for x in 1..100` and `x as f64 / 100_f64`.
NSamples == 100

\* Most tokens of a stream that is offered step by step.
MaxCmds == 3

\* Most subpaths of a straight-line stream.
MaxPaths == 3

Unit == NSamples * NSamples * NSamples

\* The f64 value of the integer v.
F(v) == v * Unit

\* Coordinate { x, y } and Coord2(x, y)
Coord(x, y) == <<x, y>>

X(c) == c[1]

Y(c) == c[2]

zero_coord == Coord(0, 0)

\* Option<T>: None is the empty sequence, Some(v) is <<v>>.
None == <<>>

Some(v) == <<v>>

unwrap_or(o, d) == IF o = None THEN d ELSE o[1]

----------------------------------------------------------------------------
\* Tokens of the command stream (svgtypes::PathSegment, or a tokenizer error).

Tok(kind, abs, x, y, x1, y1, x2, y2) ==
    [kind |-> kind, abs |-> abs, x |-> x, y |-> y,
     x1 |-> x1, y1 |-> y1, x2 |-> x2, y2 |-> y2]

TokMoveTo(abs, x, y) == Tok("MoveTo", abs, x, y, 0, 0, 0, 0)

TokLineTo(abs, x, y) == Tok("LineTo", abs, x, y, 0, 0, 0, 0)

TokHorizontalLineTo(abs, x) == Tok("HorizontalLineTo", abs, x, 0, 0, 0, 0, 0)

TokVerticalLineTo(abs, y) == Tok("VerticalLineTo", abs, 0, y, 0, 0, 0, 0)

TokCurveTo(abs, x1, y1, x2, y2, x, y) == Tok("CurveTo", abs, x, y, x1, y1, x2, y2)

TokSmoothCurveTo(abs, x2, y2, x, y) == Tok("SmoothCurveTo", abs, x, y, 0, 0, x2, y2)

TokQuadratic(abs, x1, y1, x, y) == Tok("Quadratic", abs, x, y, x1, y1, 0, 0)

TokSmoothQuadratic(abs, x, y) == Tok("SmoothQuadratic", abs, x, y, 0, 0, 0, 0)

TokClosePath == Tok("ClosePath", TRUE, 0, 0, 0, 0, 0, 0)

TokEllipticalArc == Tok("EllipticalArc", TRUE, 0, 0, 0, 0, 0, 0)

\* An Err item of the PathParser iterator.
TokErr == Tok("Err", TRUE, 0, 0, 0, 0, 0, 0)

----------------------------------------------------------------------------
\* Pure helpers of the reader.

\* Mutant: a relative coordinate is taken as it is written.
calculate_svg_coord2_unresolved(x, y, last, abs) ==
    Coord(x, y)

calculate_svg_coord2(x, y, last, abs) ==
    Coord(IF abs THEN x ELSE X(last) + x,
          IF abs THEN y ELSE Y(last) + y)

\* Mutant: the stored control point is used as it is, without reflection.
reflect_point_unreflected(orig, pr) ==
    Coord(X(pr), Y(pr))

reflect_point(orig, pr) ==
    LET x_step == X(pr) - X(orig)
        y_step == Y(pr) - Y(orig)
    IN  Coord(X(orig) - x_step, Y(orig) - y_step)

\* w1 * (1 - t) + w2 * t at t = k / NSamples
Lerp(k, w1, w2) ==
    Coord((X(w1) * (NSamples - k) + X(w2) * k) \div NSamples,
          (Y(w1) * (NSamples - k) + Y(w2) * k) \div NSamples)

de_casteljau2(k, w1, w2) == Lerp(k, w1, w2)

de_casteljau3(k, w1, w2, w3) ==
    de_casteljau2(k, Lerp(k, w1, w2), Lerp(k, w2, w3))

de_casteljau4(k, w1, w2, w3, w4) ==
    de_casteljau3(k, Lerp(k, w1, w2), Lerp(k, w2, w3), Lerp(k, w3, w4))

\* Mutant: the range of the flattening loop includes its end.
SampleRange_Inclusive == 1 .. NSamples

\* The body of the flattening loops: the samples at k / NSamples for the
\* k of the Rust range 1..100, which excludes its end.
SampleRange == 1 .. (NSamples - 1)

FlattenCubic(start_point, control_1, control_2, end_point) ==
    [k \in SampleRange |->
        de_casteljau4(k, start_point, control_1, control_2, end_point)]

FlattenQuadratic(start_point, control_1, end_point) ==
    [k \in SampleRange |-> de_casteljau3(k, start_point, control_1, end_point)]

----------------------------------------------------------------------------
\* Geometry values (geo_types).

Line(start, end) == [type |-> "Line", start |-> start, end |-> end]

LineString(coords) == [type |-> "LineString", coords |-> coords]

Polygon(exterior, interiors) ==
    [type |-> "Polygon", exterior |-> exterior, interiors |-> interiors]

MultiLineString(line_strings) ==
    [type |-> "MultiLineString", line_strings |-> line_strings]

MultiPolygon(polys) == [type |-> "MultiPolygon", polys |-> polys]

\* Mutant: closure is tested before the length of two.
PathKind_ClosureFirst(path) ==
    IF Len(path) = 0 THEN "skip"
    ELSE IF path[1] = path[Len(path)] THEN "poly"
    ELSE IF Len(path) = 2 THEN "line"
    ELSE "line_string"

\* The branch of the classification loop a subpath takes.
PathKind(path) ==
    IF Len(path) = 0 THEN "skip"
    ELSE IF Len(path) = 2 THEN "line"
    ELSE IF path[1] # path[Len(path)] THEN "line_string"
    ELSE "poly"

IsLinePath(path) == PathKind(path) = "line"

IsLineStringPath(path) == PathKind(path) = "line_string"

\* Mutant: a ring candidate has three or more coordinates.
IsPolyPath_ThreeOrMore(path) == PathKind(path) = "poly" /\ Len(path) >= 3

IsPolyPath(path) == PathKind(path) = "poly"

LineOfPath(path) == Line(path[1], path[2])

LineStringOfLine(l) == <<l.start, l.end>>

\* Mutant: the later rings become the inner boundaries of the first.
parse_polygon_rings_to_geom_holes(rings) ==
    IF Len(rings) = 0 THEN <<>>
    ELSE <<Polygon(rings[1], Tail(rings))>>

\* The polygons (a MultiPolygon's vector) built from two or more rings.
parse_polygon_rings_to_geom(rings) ==
    IF Len(rings) = 0 THEN <<>>
    ELSE <<Polygon(rings[1], <<>>)>>

map_lines_to_geometry(lines) ==
    IF Len(lines) = 1 THEN lines[1]
    ELSE MultiLineString([i \in 1 .. Len(lines) |-> LineStringOfLine(lines[i])])

\* Mutant: a single LineString is not collapsed to its scalar form.
map_line_strings_to_geometry_multi(line_strings) == MultiLineString(line_strings)

map_line_strings_to_geometry(line_strings) ==
    IF Len(line_strings) = 1 THEN LineString(line_strings[1])
    ELSE MultiLineString(line_strings)

map_polygons_to_geometry(polys) ==
    IF Len(polys) = 1 THEN polys[1]
    ELSE MultiPolygon(polys)

\* The three vectors the classification loop fills, in discovery order.
ClassifiedLines(paths) ==
    LET two == SelectSeq(paths, IsLinePath)
    IN  [i \in 1 .. Len(two) |-> LineOfPath(two[i])]

ClassifiedLineStrings(paths) == SelectSeq(paths, IsLineStringPath)

ClassifiedRings(paths) == SelectSeq(paths, IsPolyPath)

\* `polygons` after the merge of the ring candidates.
MergedPolygons(poly_line_strings) ==
    IF Len(poly_line_strings) = 0 THEN <<>>
    ELSE IF Len(poly_line_strings) = 1
         THEN <<Polygon(poly_line_strings[1], <<>>)>>
         ELSE parse_polygon_rings_to_geom(poly_line_strings)

Bit(b) == IF b THEN 1 ELSE 0

NumberOfGeomTypes(lines, line_strings, poly_line_strings) ==
    Bit(Len(lines) # 0) + Bit(Len(line_strings) # 0) + Bit(Len(poly_line_strings) # 0)

\* The tail of parse_path_segments_to_geom.  The three kinds are tested in one
\* if / else-if chain: the branch of the first non-empty kind either returns
\* the collection of that one geometry or pushes it to geom_collection, and
\* the later branches are not reached.
AssembleCollection(lines, line_strings, poly_line_strings, polygons) ==
    LET number_of_geom_types ==
            NumberOfGeomTypes(lines, line_strings, poly_line_strings)
        geom_collection == <<>>
    IN  IF Len(lines) # 0
        THEN IF number_of_geom_types = 1
             THEN <<map_lines_to_geometry(lines)>>
             ELSE Append(geom_collection, map_lines_to_geometry(lines))
        ELSE IF Len(line_strings) # 0
        THEN IF number_of_geom_types = 1
             THEN <<map_line_strings_to_geometry(line_strings)>>
             ELSE Append(geom_collection, map_line_strings_to_geometry(line_strings))
        ELSE IF Len(polygons) # 0
        THEN IF number_of_geom_types = 1
             THEN <<map_polygons_to_geometry(polygons)>>
             ELSE Append(geom_collection, map_polygons_to_geometry(polygons))
        ELSE geom_collection

----------------------------------------------------------------------------
\* Text.  A String is the sequence of its characters, each a string of length
\* one; format! and join are concatenations.

DigitChars == <<"0", "1", "2", "3", "4", "5", "6", "7", "8", "9">>

Abs(v) == IF v < 0 THEN -v ELSE v

\* The decimal digits of the natural number m.
RECURSIVE Decimal(_)
Decimal(m) ==
    IF m < 10 THEN <<DigitChars[m + 1]>>
    ELSE Decimal(m \div 10) \o <<DigitChars[(m % 10) + 1]>>

\* The digits of f / scale after the point, up to the last one that is not 0.
RECURSIVE Fraction(_, _)
Fraction(f, scale) ==
    IF f = 0 THEN <<>>
    ELSE <<DigitChars[(f \div (scale \div 10)) + 1]>>
         \o Fraction(f % (scale \div 10), scale \div 10)

\* `{}` of an f64 (fmt::Display): the sign, the integral digits and, for a
\* value that is not integral, the point and the fractional digits.
Display(v) ==
    (IF v < 0 THEN <<"-">> ELSE <<>>)
    \o Decimal(Abs(v) \div Unit)
    \o (IF Abs(v) % Unit = 0 THEN <<>> ELSE <<".">> \o Fraction(Abs(v) % Unit, Unit))

\* Vec<String>::join(sep)
RECURSIVE Join(_, _)
Join(strs, sep) ==
    IF Len(strs) = 0 THEN <<>>
    ELSE IF Len(strs) = 1 THEN strs[1]
    ELSE strs[1] \o sep \o Join(Tail(strs), sep)

----------------------------------------------------------------------------
\* The writer (geo_svg_writer): to_svg gives standalone elements, to_svg_string
\* gives path data.

GeometryCollection(geoms) == [type |-> "GeometryCollection", geoms |-> geoms]

\* "{} {}"
coord_to_svg(coord) == Display(X(coord)) \o <<" ">> \o Display(Y(coord))

\* "{},{}"
coord_to_svg_point(coord) == Display(X(coord)) \o <<",">> \o Display(Y(coord))

\* "<line x1=\"{}\" x2=\"{}\" y1=\"{}\" y2=\"{}\"/>"
single_line_to_svg(line) ==
    <<"<", "l", "i", "n", "e", " ", "x", "1", "=", "\"">> \o Display(X(line.start))
    \o <<"\"", " ", "x", "2", "=", "\"">> \o Display(X(line.end))
    \o <<"\"", " ", "y", "1", "=", "\"">> \o Display(Y(line.start))
    \o <<"\"", " ", "y", "2", "=", "\"">> \o Display(Y(line.end))
    \o <<"\"", "/", ">">>

\* "M{} {}L{} {}" with the arguments start.x, end.x, start.y, end.y
single_line_to_svg_string(line) ==
    <<"M">> \o Display(X(line.start)) \o <<" ">> \o Display(X(line.end))
    \o <<"L">> \o Display(Y(line.start)) \o <<" ">> \o Display(Y(line.end))

line_to_svg(line) ==
    Join([i \in 1 .. Len(line.coords) |-> coord_to_svg_point(line.coords[i])], <<" ">>)

line_to_svg_string(line) ==
    Join([i \in 1 .. Len(line.coords) |-> coord_to_svg(line.coords[i])], <<"L">>)

\* Mutant: an empty LineString is written as an element without points.
linestring_to_svg_unguarded(line) ==
    <<"<", "p", "o", "l", "y", "l", "i", "n", "e", " ",
      "p", "o", "i", "n", "t", "s", "=", "\"">>
    \o line_to_svg(line) \o <<"\"", "/", ">">>

\* "<polyline points=\"{}\"/>"
linestring_to_svg(line) ==
    IF Len(line.coords) = 0 THEN <<>>
    ELSE <<"<", "p", "o", "l", "y", "l", "i", "n", "e", " ",
           "p", "o", "i", "n", "t", "s", "=", "\"">>
         \o line_to_svg(line) \o <<"\"", "/", ">">>

\* "M{}"
linestring_to_svg_string(line) ==
    IF Len(line.coords) = 0 THEN <<>>
    ELSE <<"M">> \o line_to_svg_string(line)

multi_linestring_to_svg(multi_line) ==
    IF Len(multi_line.line_strings) = 0 THEN <<>>
    ELSE Join([i \in 1 .. Len(multi_line.line_strings) |->
                  linestring_to_svg(LineString(multi_line.line_strings[i]))], <<"\n">>)

multi_linestring_to_svg_string(multi_line) ==
    IF Len(multi_line.line_strings) = 0 THEN <<>>
    ELSE Join([i \in 1 .. Len(multi_line.line_strings) |->
                  linestring_to_svg_string(LineString(multi_line.line_strings[i]))], <<>>)

\* Mutant: every ring ends with a close command.
poly_ring_to_svg_closed(line) ==
    Join([i \in 1 .. Len(line) |-> coord_to_svg(line[i])], <<"L">>) \o <<"Z">>

\* The points of one ring (the coordinates of a LineString), joined by "L".
poly_ring_to_svg(line) ==
    Join([i \in 1 .. Len(line) |-> coord_to_svg(line[i])], <<"L">>)

\* The exterior is inserted before the interiors; the rings are joined by "M".
polygon_rings_to_svg(poly) ==
    LET lines == <<poly.exterior>> \o poly.interiors
    IN  Join([i \in 1 .. Len(lines) |-> poly_ring_to_svg(lines[i])], <<"M">>)

\* "<path d=\"M{}\"/>"
polygon_to_svg(poly) ==
    IF Len(poly.exterior) = 0 THEN <<>>
    ELSE <<"<", "p", "a", "t", "h", " ", "d", "=", "\"", "M">>
         \o polygon_rings_to_svg(poly) \o <<"\"", "/", ">">>

\* "M{}"
polygon_to_svg_string(poly) ==
    IF Len(poly.exterior) = 0 THEN <<>>
    ELSE <<"M">> \o polygon_rings_to_svg(poly)

multi_polygon_to_svg(poly) ==
    IF Len(poly.polys) = 0 THEN <<>>
    ELSE Join([i \in 1 .. Len(poly.polys) |-> polygon_to_svg(poly.polys[i])], <<"\n">>)

multi_polygon_to_svg_string(poly) ==
    IF Len(poly.polys) = 0 THEN <<>>
    ELSE Join([i \in 1 .. Len(poly.polys) |-> polygon_to_svg_string(poly.polys[i])], <<>>)

\* impl ToSvg for Geometry: the match has no arm for Geometry::Line.
Geometry_to_svg(g) ==
    IF g.type = "MultiPolygon" THEN multi_polygon_to_svg(g)
    ELSE IF g.type = "Polygon" THEN polygon_to_svg(g)
    ELSE IF g.type = "MultiLineString" THEN multi_linestring_to_svg(g)
    ELSE IF g.type = "LineString" THEN linestring_to_svg(g)
    ELSE <<>>

\* impl ToSvgString for Geometry
Geometry_to_svg_string(g) ==
    IF g.type = "MultiPolygon" THEN multi_polygon_to_svg_string(g)
    ELSE IF g.type = "Polygon" THEN polygon_to_svg_string(g)
    ELSE IF g.type = "MultiLineString" THEN multi_linestring_to_svg_string(g)
    ELSE IF g.type = "LineString" THEN linestring_to_svg_string(g)
    ELSE IF g.type = "Line" THEN single_line_to_svg_string(g)
    ELSE <<>>

\* Mutant: the members are joined without a separator in display mode too.
GeometryCollection_to_svg_glued(gc) ==
    IF Len(gc.geoms) = 0 THEN <<>>
    ELSE Join([i \in 1 .. Len(gc.geoms) |-> Geometry_to_svg(gc.geoms[i])], <<>>)

\* impl ToSvg for GeometryCollection
GeometryCollection_to_svg(gc) ==
    IF Len(gc.geoms) = 0 THEN <<>>
    ELSE Join([i \in 1 .. Len(gc.geoms) |-> Geometry_to_svg(gc.geoms[i])], <<"\n">>)

\* impl ToSvgString for GeometryCollection
GeometryCollection_to_svg_string(gc) ==
    IF Len(gc.geoms) = 0 THEN <<>>
    ELSE Join([i \in 1 .. Len(gc.geoms) |-> Geometry_to_svg_string(gc.geoms[i])], <<>>)

\* x.to_svg() for a receiver of the static type GeometryCollection, Line,
\* Polygon, MultiPolygon, LineString or MultiLineString.
to_svg(x) ==
    IF x.type = "GeometryCollection" THEN GeometryCollection_to_svg(x)
    ELSE IF x.type = "Line" THEN single_line_to_svg(x)
    ELSE IF x.type = "MultiPolygon" THEN multi_polygon_to_svg(x)
    ELSE IF x.type = "Polygon" THEN polygon_to_svg(x)
    ELSE IF x.type = "MultiLineString" THEN multi_linestring_to_svg(x)
    ELSE linestring_to_svg(x)

\* x.to_svg_string() for the same receivers
to_svg_string(x) ==
    IF x.type = "GeometryCollection" THEN GeometryCollection_to_svg_string(x)
    ELSE IF x.type = "Line" THEN single_line_to_svg_string(x)
    ELSE IF x.type = "MultiPolygon" THEN multi_polygon_to_svg_string(x)
    ELSE IF x.type = "Polygon" THEN polygon_to_svg_string(x)
    ELSE IF x.type = "MultiLineString" THEN multi_linestring_to_svg_string(x)
    ELSE linestring_to_svg_string(x)

----------------------------------------------------------------------------
\* PathParser::from(svg): the tokens of the path data the writer produces, the
\* commands M and L with two numbers each.  The iterator ends with an Err item
\* at the first command it cannot read.

DigitValue(c) == (CHOOSE d \in 1 .. 10 : DigitChars[d] = c) - 1

\* The index after the digits that start at i.
RECURSIVE ScanDigits(_, _)
ScanDigits(s, i) ==
    IF i <= Len(s) /\ (\E d \in 1 .. 10 : DigitChars[d] = s[i])
    THEN ScanDigits(s, i + 1)
    ELSE i

\* The index after the spaces and commas that start at i.
RECURSIVE SkipSpaces(_, _)
SkipSpaces(s, i) ==
    IF i <= Len(s) /\ s[i] \in {" ", ","} THEN SkipSpaces(s, i + 1) ELSE i

\* The number the digits s[i] .. s[j - 1] write.
RECURSIVE IntOf(_, _, _)
IntOf(s, i, j) ==
    IF i >= j THEN 0 ELSE IntOf(s, i, j - 1) * 10 + DigitValue(s[j - 1])

\* The value, in units of 1 / scale, of the digits s[i] .. s[j - 1] after a point.
RECURSIVE FracOf(_, _, _, _)
FracOf(s, i, j, scale) ==
    IF i >= j \/ scale < 10 THEN 0
    ELSE DigitValue(s[i]) * (scale \div 10) + FracOf(s, i + 1, j, scale \div 10)

\* The number that starts at i: sign, digits, and a point with digits.
ParseNumber(s, i) ==
    LET neg == i <= Len(s) /\ s[i] = "-"
        a == IF neg THEN i + 1 ELSE i
        b == ScanDigits(s, a)
        has_frac == b <= Len(s) /\ s[b] = "."
        c == IF has_frac THEN ScanDigits(s, b + 1) ELSE b
        mag == IntOf(s, a, b) * Unit + (IF has_frac THEN FracOf(s, b + 1, c, Unit) ELSE 0)
    IN  [ok |-> b > a, value |-> IF neg THEN -mag ELSE mag, next |-> c]

RECURSIVE PathTokens(_, _)
PathTokens(s, i) ==
    LET j == SkipSpaces(s, i)
    IN  IF j > Len(s) THEN <<>>
        ELSE IF s[j] \notin {"M", "L"} THEN <<TokErr>>
        ELSE LET x == ParseNumber(s, SkipSpaces(s, j + 1))
                 y == ParseNumber(s, SkipSpaces(s, x.next))
             IN  IF ~x.ok \/ ~y.ok THEN <<TokErr>>
                 ELSE <<(IF s[j] = "M" THEN TokMoveTo(TRUE, x.value, y.value)
                         ELSE TokLineTo(TRUE, x.value, y.value))>>
                      \o PathTokens(s, y.next)

PathParser(svg) == PathTokens(svg, 1)

----------------------------------------------------------------------------
\* Results of the two entry points.

NoGeometry == [type |-> "None"]

Pending == [tag |-> "Pending", err |-> "", gc |-> <<>>, geom |-> NoGeometry]

\* Ok(GeometryCollection(gc))
OkCollection(gc) == [tag |-> "Ok", err |-> "", gc |-> gc, geom |-> NoGeometry]

\* Ok(geometry)
OkGeometry(g) == [tag |-> "Ok", err |-> "", gc |-> <<>>, geom |-> g]

\* Err(SvgError::...)
Err(e) == [tag |-> "Err", err |-> e, gc |-> <<>>, geom |-> NoGeometry]

\* The call does not return: unwrap() of an Err token, or an index out of bounds.
Panicked == [tag |-> "Panic", err |-> "", gc |-> <<>>, geom |-> NoGeometry]

\* svg_d_path_to_geometry, given what svg_d_path_to_geometry_collection returned
svg_d_path_to_geometry(res) ==
    IF res.tag # "Ok" THEN res
    ELSE IF Len(res.gc) = 1 THEN OkGeometry(res.gc[1])
    ELSE Err("SvgGeomCollectionForGeometry")

----------------------------------------------------------------------------
\* Inputs.

\* Arguments of the tokens offered step by step.
FreeVals == {0, 1}

\* Control points of the curve tokens offered step by step.
CurvePts == {<<0, 1>>, <<1, 0>>}

\* Their end point.
CurveEnd == <<1, 1>>

\* The two control points of a cubic token offered step by step.
CubicControls == {c \in CurvePts \X CurvePts : c[1] # c[2]}

FreeTokens ==
    {TokMoveTo(abs, F(x), F(y)) : abs \in BOOLEAN, x \in FreeVals, y \in FreeVals}
    \cup {TokLineTo(abs, F(x), F(y)) : abs \in BOOLEAN, x \in FreeVals, y \in FreeVals}
    \cup {TokHorizontalLineTo(abs, F(1)) : abs \in BOOLEAN}
    \cup {TokVerticalLineTo(abs, F(1)) : abs \in BOOLEAN}
    \cup {TokCurveTo(abs, F(c[1][1]), F(c[1][2]), F(c[2][1]), F(c[2][2]),
                     F(CurveEnd[1]), F(CurveEnd[2])) :
            abs \in BOOLEAN, c \in CubicControls}
    \cup {TokSmoothCurveTo(abs, F(c2[1]), F(c2[2]), F(CurveEnd[1]), F(CurveEnd[2])) :
            abs \in BOOLEAN, c2 \in CurvePts}
    \cup {TokQuadratic(abs, F(c1[1]), F(c1[2]), F(CurveEnd[1]), F(CurveEnd[2])) :
            abs \in BOOLEAN, c1 \in CurvePts}
    \cup {TokSmoothQuadratic(abs, F(CurveEnd[1]), F(CurveEnd[2])) : abs \in BOOLEAN}
    \cup {TokClosePath, TokEllipticalArc, TokErr}

\* The stream "M p1 L p2 L p3 ..." that draws one subpath with absolute commands.
RECURSIVE LineToks(_)
LineToks(pts) ==
    IF pts = <<>> THEN <<>>
    ELSE <<TokLineTo(TRUE, X(pts[1]), Y(pts[1]))>> \o LineToks(Tail(pts))

SubpathToks(pts) ==
    <<TokMoveTo(TRUE, X(pts[1]), Y(pts[1]))>> \o LineToks(Tail(pts))

RECURSIVE StraightStream(_)
StraightStream(paths) ==
    IF paths = <<>> THEN <<>>
    ELSE SubpathToks(paths[1]) \o StraightStream(Tail(paths))

P(x, y) == Coord(F(x), F(y))

\* 10.5
TenAndHalf == (21 * Unit) \div 2

\* The rings of the reader's tests: "M0 0L0 60L60 60L60 0L0 0" and
\* "M10 10L40 1L40 40L10.5 40L10 10", which lies inside the first.
OuterRing == <<P(0, 0), P(0, 60), P(60, 60), P(60, 0), P(0, 0)>>

InnerRing == <<P(10, 10), P(40, 1), P(40, 40), Coord(TenAndHalf, F(40)), P(10, 10)>>

\* Subpaths a straight-line stream is made of: segments (one of them with
\* coinciding end points), open chains, closed rings, a ring that crosses
\* OuterRing, a triangle closed on its start, and a lone MoveTo point.
SubpathLib ==
    { <<P(0, 0), P(10, 0)>>,
      <<P(5, 5), P(5, 5)>>,
      <<P(0, 0), P(10, 0), P(10, 10)>>,
      <<P(20, 0), P(30, 0), P(30, 10), P(20, 10)>>,
      OuterRing,
      InnerRing,
      <<P(50, 50), P(70, 50), P(70, 70), P(50, 50)>>,
      <<P(1, 1), P(2, 1), P(1, 1)>>,
      <<P(7, 7)>> }

PathLists == UNION {[1 .. k -> SubpathLib] : k \in 1 .. MaxPaths}

\* "M0 0Q0 1 1 1L2 1T3 1": a smooth quadratic command that follows a line
\* drawn after a quadratic curve.
SmoothAfterLine ==
    <<TokMoveTo(TRUE, F(0), F(0)),
      TokQuadratic(TRUE, F(0), F(1), F(1), F(1)),
      TokLineTo(TRUE, F(2), F(1)),
      TokSmoothQuadratic(TRUE, F(3), F(1))>>

\* Scripted streams: the straight-line streams of PathLists, one subpath
\* followed by a close command, and SmoothAfterLine.
Scripts ==
    {StraightStream(pl) : pl \in PathLists}
    \cup {SubpathToks(sp) \o <<TokClosePath>> : sp \in SubpathLib}
    \cup {SmoothAfterLine}

----------------------------------------------------------------------------
\* The state of one call of svg_d_path_to_geometry_collection.

VARIABLES
    path_segments,       \* Vec<Vec<Coordinate>>: the subpaths, from M to M
    segment_count,       \* index of the active subpath (0-based)
    first_segment,
    last_point,          \* Option<Coordinate>: the current point
    last_control_point,  \* Option<Coord2>
    t,                   \* the token of the last iteration of the loop
    stream,              \* the tokens of the script still to come
    free,                \* TRUE: the tokens are offered step by step
    n,                   \* number of tokens consumed
    pc,                  \* "loop" while the tokens are consumed, then "done"
    lines,               \* the vectors of parse_path_segments_to_geom
    line_strings,
    poly_line_strings,
    polygons,
    result,              \* what svg_d_path_to_geometry_collection returns
    single,              \* what svg_d_path_to_geometry returns for the same input
    geometry,            \* the receiver of to_svg and to_svg_string
    svg,                 \* Option: what to_svg returned
    svg_string,          \* Option: what to_svg_string returned
    svg_string_again,    \* Option: to_svg_string of the parsed svg_string
    element,             \* the last StartElement event of svg_to_geometry_collection
    events,              \* number of events read
    element_result       \* what svg_to_geometry_collection returns

vars == <<path_segments, segment_count, first_segment, last_point,
          last_control_point, t, stream, free, n, pc,
          lines, line_strings, poly_line_strings, polygons, result, single,
          geometry, svg, svg_string, svg_string_again,
          element, events, element_result>>

classified == <<lines, line_strings, poly_line_strings, polygons>>

\* The state of the writer's calls, and of svg_to_geometry_collection.
written == <<geometry, svg, svg_string, svg_string_again>>

dispatched == <<element, events, element_result>>

NoToken == Tok("None", TRUE, 0, 0, 0, 0, 0, 0)

NoElement == [name |-> "", attrs |-> <<>>]

\* No call of the writer has been made.
NothingWritten ==
    /\ geometry = NoGeometry
    /\ svg = None
    /\ svg_string = None
    /\ svg_string_again = None

\* No call of svg_to_geometry_collection has been made.
NothingDispatched ==
    /\ element = NoElement
    /\ events = 0
    /\ element_result = Pending

\* The locals of svg_d_path_to_geometry_collection at its entry.
AtEntry ==
    /\ path_segments = <<>>
    /\ segment_count = 0
    /\ first_segment = TRUE
    /\ last_point = None
    /\ last_control_point = None
    /\ t = NoToken
    /\ n = 0
    /\ lines = <<>>
    /\ line_strings = <<>>
    /\ poly_line_strings = <<>>
    /\ polygons = <<>>
    /\ result = Pending
    /\ single = Pending

Init ==
    /\ AtEntry
    /\ \/ free = TRUE /\ stream = <<>>
       \/ free = FALSE /\ stream \in Scripts
    /\ pc = "loop"
    /\ NothingWritten
    /\ NothingDispatched

\* The tokens the iterator may yield next.
Offered ==
    IF stream # <<>> THEN {Head(stream)}
    ELSE IF free /\ n < MaxCmds THEN FreeTokens
    ELSE {}

\* `for token in p { let t = token.unwrap(); ...`
Consume(tk) ==
    /\ pc = "loop"
    /\ tk \in Offered
    /\ t' = tk
    /\ stream' = IF stream # <<>> THEN Tail(stream) ELSE stream
    /\ n' = n + 1
    /\ free' = free
    /\ UNCHANGED <<written, dispatched>>

\* The call panics; the locals are dropped.
Panic ==
    /\ pc' = "done"
    /\ result' = Panicked
    /\ single' = Panicked
    /\ UNCHANGED <<path_segments, segment_count, first_segment, last_point,
                   last_control_point, classified>>

Continue ==
    /\ pc' = pc
    /\ result' = result
    /\ single' = single
    /\ UNCHANGED classified

\* Mutant: the coordinates are pushed to every subpath up to the active one.
PushAll_Every(segs, count, coords) ==
    [i \in 1 .. Len(segs) |-> IF i <= count + 1 THEN segs[i] \o coords ELSE segs[i]]

\* path_segments[segment_count].push(coord), repeated for every coord of coords
PushAll(segs, count, coords) ==
    [segs EXCEPT ![count + 1] = @ \o coords]

\* path_segments[segment_count] is out of bounds
NoActiveSegment == segment_count + 1 > Len(path_segments)

----------------------------------------------------------------------------
\* The arms of `match t`.

\* The x and the y the MoveTo, LineTo, HorizontalLineTo and VerticalLineTo
\* arms compute in line.
ResolveX(tk, last) ==
    IF ~tk.abs THEN tk.x + X(unwrap_or(last, zero_coord)) ELSE tk.x

ResolveY(tk, last) ==
    IF ~tk.abs THEN tk.y + Y(unwrap_or(last, zero_coord)) ELSE tk.y

\* token.unwrap() of an Err item
TokenError ==
    \E tk \in Offered :
        /\ tk.kind = "Err"
        /\ Consume(tk)
        /\ Panic

MoveTo ==
    \E tk \in Offered :
        /\ tk.kind = "MoveTo"
        /\ Consume(tk)
        /\ LET pushed == Append(path_segments, <<>>)
               count == IF ~first_segment THEN segment_count + 1 ELSE segment_count
               coord == Coord(ResolveX(tk, last_point), ResolveY(tk, last_point))
           IN  /\ segment_count' = count
               /\ first_segment' = FALSE
               /\ last_point' = Some(coord)
               /\ path_segments' = PushAll(pushed, count, <<coord>>)
        /\ UNCHANGED last_control_point
        /\ Continue

\* Mutant: a line command clears the stored control point.
LineArm_ClearsControlPoint(coord) ==
    IF NoActiveSegment THEN Panic
    ELSE /\ last_point' = Some(coord)
         /\ path_segments' = PushAll(path_segments, segment_count, <<coord>>)
         /\ last_control_point' = None
         /\ UNCHANGED <<segment_count, first_segment>>
         /\ Continue

\* An arm that sets last_point to coord and pushes coord to the active subpath.
LineArm(coord) ==
    IF NoActiveSegment THEN Panic
    ELSE /\ last_point' = Some(coord)
         /\ path_segments' = PushAll(path_segments, segment_count, <<coord>>)
         /\ UNCHANGED <<segment_count, first_segment, last_control_point>>
         /\ Continue

LineTo ==
    \E tk \in Offered :
        /\ tk.kind = "LineTo"
        /\ Consume(tk)
        /\ LineArm(Coord(ResolveX(tk, last_point), ResolveY(tk, last_point)))

HorizontalLineTo ==
    \E tk \in Offered :
        /\ tk.kind = "HorizontalLineTo"
        /\ Consume(tk)
        /\ LineArm(Coord(ResolveX(tk, last_point), Y(unwrap_or(last_point, zero_coord))))

\* Mutant: the vertical line starts at x = 0.
VerticalLineTo_FromYAxis ==
    \E tk \in Offered :
        /\ tk.kind = "VerticalLineTo"
        /\ Consume(tk)
        /\ LineArm(Coord(0, ResolveY(tk, last_point)))

VerticalLineTo ==
    \E tk \in Offered :
        /\ tk.kind = "VerticalLineTo"
        /\ Consume(tk)
        /\ LineArm(Coord(X(unwrap_or(last_point, zero_coord)), ResolveY(tk, last_point)))

\* The end of a curve arm: the samples of the loop, then the end point.
CurveArm(samples, control, end) ==
    IF NoActiveSegment THEN Panic
    ELSE /\ last_control_point' = Some(control)
         /\ last_point' = Some(end)
         /\ path_segments' = PushAll(path_segments, segment_count, samples \o <<end>>)
         /\ UNCHANGED <<segment_count, first_segment>>
         /\ Continue

CurveTo ==
    \E tk \in Offered :
        /\ tk.kind = "CurveTo"
        /\ Consume(tk)
        /\ LET last == unwrap_or(last_point, zero_coord)
               start_point == calculate_svg_coord2(X(last), Y(last), last, TRUE)
               control_1 == calculate_svg_coord2(tk.x1, tk.y1, last, tk.abs)
               control_2 == calculate_svg_coord2(tk.x2, tk.y2, last, tk.abs)
               end_point == calculate_svg_coord2(tk.x, tk.y, last, tk.abs)
           IN  CurveArm(FlattenCubic(start_point, control_1, control_2, end_point),
                        control_2, end_point)

SmoothCurveTo ==
    \E tk \in Offered :
        /\ tk.kind = "SmoothCurveTo"
        /\ Consume(tk)
        /\ LET last == unwrap_or(last_point, zero_coord)
               start_point == calculate_svg_coord2(X(last), Y(last), last, TRUE)
               control_1 == reflect_point(last, unwrap_or(last_control_point, Coord(0, 0)))
               control_2 == calculate_svg_coord2(tk.x2, tk.y2, last, tk.abs)
               end_point == calculate_svg_coord2(tk.x, tk.y, last, tk.abs)
           IN  CurveArm(FlattenCubic(start_point, control_1, control_2, end_point),
                        control_2, end_point)

Quadratic ==
    \E tk \in Offered :
        /\ tk.kind = "Quadratic"
        /\ Consume(tk)
        /\ LET last == unwrap_or(last_point, zero_coord)
               start_point == calculate_svg_coord2(X(last), Y(last), last, TRUE)
               control_1 == calculate_svg_coord2(tk.x1, tk.y1, last, tk.abs)
               end_point == calculate_svg_coord2(tk.x, tk.y, last, tk.abs)
           IN  CurveArm(FlattenQuadratic(start_point, control_1, end_point),
                        control_1, end_point)

SmoothQuadratic ==
    \E tk \in Offered :
        /\ tk.kind = "SmoothQuadratic"
        /\ Consume(tk)
        /\ LET last == unwrap_or(last_point, zero_coord)
               start_point == calculate_svg_coord2(X(last), Y(last), last, TRUE)
               control_1 == reflect_point(last, unwrap_or(last_control_point, Coord(0, 0)))
               end_point == calculate_svg_coord2(tk.x, tk.y, last, tk.abs)
           IN  CurveArm(FlattenQuadratic(start_point, control_1, end_point),
                        control_1, end_point)

\* Mutant: nothing is pushed to a subpath that is closed already.
ClosedSubpath_Idempotent(path) ==
    IF path[Len(path)] = path[1] THEN path
    ELSE Append(path, Coord(X(path[1]), Y(path[1])))

\* The active subpath after the ClosePath arm: a copy of its first coordinate
\* is pushed.
ClosedSubpath(path) == Append(path, Coord(X(path[1]), Y(path[1])))

\* Mutant: the current point stays at the last point drawn.
ClosePath_KeepsCurrentPoint ==
    \E tk \in Offered :
        /\ tk.kind = "ClosePath"
        /\ Consume(tk)
        /\ IF NoActiveSegment THEN Panic
           ELSE LET path == path_segments[segment_count + 1]
                IN  /\ path_segments' =
                           [path_segments EXCEPT ![segment_count + 1] = ClosedSubpath(path)]
                    /\ UNCHANGED <<segment_count, first_segment, last_point,
                                   last_control_point>>
                    /\ Continue

ClosePath ==
    \E tk \in Offered :
        /\ tk.kind = "ClosePath"
        /\ Consume(tk)
        /\ IF NoActiveSegment THEN Panic
           ELSE LET path == path_segments[segment_count + 1]
                IN  /\ last_point' = Some(Coord(X(path[1]), Y(path[1])))
                    /\ path_segments' =
                           [path_segments EXCEPT ![segment_count + 1] = ClosedSubpath(path)]
                    /\ UNCHANGED <<segment_count, first_segment, last_control_point>>
                    /\ Continue

\* `_ => last_point = None`: the arm of every other PathSegment (EllipticalArc).
Unsupported ==
    \E tk \in Offered :
        /\ tk.kind = "EllipticalArc"
        /\ Consume(tk)
        /\ last_point' = None
        /\ UNCHANGED <<path_segments, segment_count, first_segment, last_control_point>>
        /\ Continue

\* The iterator is exhausted: the code after the loop.  Without a subpath the
\* function returns the error; otherwise it returns what
\* parse_path_segments_to_geom makes of path_segments.
EndOfStream ==
    /\ pc = "loop"
    /\ stream = <<>>
    /\ pc' = "done"
    /\ IF Len(path_segments) = 0
       THEN /\ result' = Err("InvalidSvgError")
            /\ UNCHANGED classified
       ELSE /\ lines' = ClassifiedLines(path_segments)
            /\ line_strings' = ClassifiedLineStrings(path_segments)
            /\ poly_line_strings' = ClassifiedRings(path_segments)
            /\ polygons' = MergedPolygons(poly_line_strings')
            /\ result' = OkCollection(
                   AssembleCollection(lines', line_strings', poly_line_strings', polygons'))
    /\ single' = svg_d_path_to_geometry(result')
    /\ UNCHANGED <<path_segments, segment_count, first_segment, last_point,
                   last_control_point, t, stream, free, n, written, dispatched>>

Next ==
    \/ TokenError
    \/ MoveTo
    \/ LineTo
    \/ HorizontalLineTo
    \/ VerticalLineTo
    \/ CurveTo
    \/ SmoothCurveTo
    \/ Quadratic
    \/ SmoothQuadratic
    \/ ClosePath
    \/ Unsupported
    \/ EndOfStream

Spec == Init /\ [][Next]_vars

----------------------------------------------------------------------------
\* The writer: to_svg and to_svg_string of a geometry, and the reader applied
\* to the path data to_svg_string returned.

\* Most interior rings of a polygon.
MaxHoles == 2

\* Most members of a collection.
MaxMembers == 2

\* 1.5
OneAndHalf == (3 * Unit) \div 2

\* The square of the writer's tests, "M1 1L4 1L4 4L1 4L1 1".
Square == <<P(1, 1), P(4, 1), P(4, 4), P(1, 4), P(1, 1)>>

Exteriors == {<<>>, OuterRing, Square}

\* Interior rings: the ring of the tests, a triangle, and a ring without points.
Holes == {InnerRing, <<P(2, 2), P(3, 2), P(3, 3), P(2, 2)>>, <<>>}

Polygons ==
    {Polygon(e, h) : e \in Exteriors, h \in UNION {[1 .. k -> Holes] : k \in 0 .. MaxHoles}}

\* Point lists of LineStrings: none, the chain "1,1 4,1 4,4 1.5,4" of the
\* tests, and a chain with negative coordinates.
ChainLib ==
    { <<>>,
      <<P(1, 1), P(4, 1), P(4, 4), Coord(OneAndHalf, F(4))>>,
      <<P(-2, 3), P(0, 0), Coord(F(10), -OneAndHalf)>> }

Lines == {Line(P(0, 0), P(10, 0)), Line(P(5, 5), P(5, 5)), Line(P(1, 2), P(3, 4))}

\* Members of a MultiPolygon.
PolygonLib ==
    {Polygon(Square, <<>>), Polygon(OuterRing, <<InnerRing>>), Polygon(<<>>, <<>>)}

\* Members of a GeometryCollection (values of the enum Geometry).
MemberLib ==
    { Polygon(Square, <<>>),
      Polygon(OuterRing, <<InnerRing>>),
      Polygon(<<>>, <<>>),
      LineString(<<P(1, 1), P(4, 1), P(4, 4), Coord(OneAndHalf, F(4))>>),
      LineString(<<>>),
      Line(P(1, 2), P(3, 4)),
      MultiPolygon(<<Polygon(Square, <<>>), Polygon(OuterRing, <<>>)>>),
      MultiLineString(<<>>) }

\* The sequences of up to MaxMembers members of lib.
Members(lib) == UNION {[1 .. k -> lib] : k \in 0 .. MaxMembers}

\* The receivers of the writer's calls.
WriterInputs ==
    Polygons
    \cup {LineString(c) : c \in ChainLib}
    \cup Lines
    \cup {MultiPolygon(ps) : ps \in Members(PolygonLib)}
    \cup {MultiLineString(ls) : ls \in Members(ChainLib)}
    \cup {GeometryCollection(ms) : ms \in Members(MemberLib)}

WriterInit ==
    /\ AtEntry
    /\ free = FALSE
    /\ stream = <<>>
    /\ pc = "write"
    /\ geometry \in WriterInputs
    /\ svg = None
    /\ svg_string = None
    /\ svg_string_again = None
    /\ NothingDispatched

reader_vars == <<path_segments, segment_count, first_segment, last_point,
                 last_control_point, t, stream, free, n, pc, classified, result, single>>

\* geometry.to_svg()
ToSvg ==
    /\ pc = "write"
    /\ svg = None
    /\ svg' = Some(to_svg(geometry))
    /\ UNCHANGED <<geometry, svg_string, svg_string_again, reader_vars, dispatched>>

\* geometry.to_svg_string()
ToSvgString ==
    /\ pc = "write"
    /\ svg_string = None
    /\ svg_string' = Some(to_svg_string(geometry))
    /\ UNCHANGED <<geometry, svg, svg_string_again, reader_vars, dispatched>>

\* svg_d_path_to_geometry_collection(&svg_string): `let p = PathParser::from(svg)`
ParseFragment ==
    /\ pc = "write"
    /\ svg_string # None
    /\ stream' = PathParser(svg_string[1])
    /\ pc' = "loop"
    /\ UNCHANGED <<path_segments, segment_count, first_segment, last_point,
                   last_control_point, t, free, n, classified, result, single,
                   written, dispatched>>

\* to_svg_string() of the GeometryCollection the reader returned
SerializeParsed ==
    /\ pc = "done"
    /\ result.tag = "Ok"
    /\ svg_string_again = None
    /\ svg_string_again' = Some(GeometryCollection_to_svg_string(GeometryCollection(result.gc)))
    /\ UNCHANGED <<geometry, svg, svg_string, reader_vars, dispatched>>

WriterNext ==
    \/ ToSvg
    \/ ToSvgString
    \/ ParseFragment
    \/ TokenError
    \/ MoveTo
    \/ LineTo
    \/ EndOfStream
    \/ SerializeParsed

WriterSpec == WriterInit /\ [][WriterNext]_vars

----------------------------------------------------------------------------
\* svg_to_geometry_collection: the loop over the StartElement events of the
\* document.  An element is its local name and its attributes, a function
\* from the names of the attributes it has to their values.

\* Most StartElement events of a document.
MaxEvents == 2

\* Values of a numeric attribute: text that parse::<f64>() rejects, and numbers.
BadNumber == [kind |-> "bad", v |-> 0]

Number(v) == [kind |-> "number", v |-> v]

\* Values of `d`: path data, given by what svg_d_path_to_geometry_collection
\* makes of it.
PathData(parsed) == [kind |-> "data", parsed |-> parsed]

\* Values of `points`: the pairs PointsParser yields.
Points(pairs) == [kind |-> "points", pairs |-> pairs]

\* The elements with the attributes of names and the values of values.
ElementsOf(name, names, values) ==
    {[name |-> name, attrs |-> a] : a \in UNION {[S -> values] : S \in SUBSET names}}

RectAttributes == {"x", "y", "width", "height"}

LineAttributes == {"x1", "y1", "x2", "y2"}

\* The StartElement events of the documents: the five shape elements and a
\* circle, each with any of its attributes; the numbers are 60 and -70.
Elements ==
    ElementsOf("path", {"d"},
               { PathData(OkCollection(<<Line(P(0, 0), P(10, 0))>>)),
                 PathData(Err("InvalidSvgError")),
                 PathData(Panicked) })
    \cup ElementsOf("polygon", {"points"}, {Points(<<>>), Points(OuterRing)})
    \cup ElementsOf("polyline", {"points"}, {Points(<<>>), Points(OuterRing)})
    \cup ElementsOf("rect", RectAttributes, {BadNumber, Number(F(60)), Number(-F(70))})
    \cup ElementsOf("line", LineAttributes, {BadNumber, Number(F(60)), Number(-F(70))})
    \cup ElementsOf("circle", {"r"}, {Number(F(60))})

HasAttribute(e, a) == a \in DOMAIN e.attrs

\* Some attribute among names has a value that parse::<f64>() rejects.
SomeBadNumber(e, names) ==
    \E a \in names : HasAttribute(e, a) /\ e.attrs[a].kind = "bad"

svg_polygon_to_geometry(pairs) ==
    IF Len(pairs) = 0 THEN Err("InvalidSvgError")
    ELSE OkGeometry(Polygon(pairs, <<>>))

svg_polyline_to_geometry(pairs) ==
    IF Len(pairs) = 0 THEN Err("InvalidSvgError")
    ELSE OkGeometry(LineString(pairs))

\* Polygon::from(Rect::new(min, max)): the corners from min, closed.
svg_rect_to_geometry(x, y, width, height) ==
    LET max_x == x + width
        max_y == y + height
    IN  IF x > max_x THEN Err("InvalidSvgError")
        ELSE IF y > max_y THEN Err("InvalidSvgError")
        ELSE OkGeometry(Polygon(<<Coord(x, y), Coord(x, max_y), Coord(max_x, max_y),
                                  Coord(max_x, y), Coord(x, y)>>, <<>>))

svg_line_to_geometry(start_x, start_y, end_x, end_y) ==
    Line(Coord(start_x, start_y), Coord(end_x, end_y))

\* Ok(res.into()) of a geometry, or the error of `?`
IntoCollection(res) ==
    IF res.tag = "Ok" THEN OkCollection(<<res.geom>>) ELSE res

ElementInit ==
    /\ AtEntry
    /\ free = FALSE
    /\ stream = <<>>
    /\ pc = "events"
    /\ NothingWritten
    /\ NothingDispatched

\* The next StartElement event is e.
ReadEvent(e) ==
    /\ pc = "events"
    /\ events < MaxEvents
    /\ e \in Elements
    /\ element' = e
    /\ events' = events + 1
    /\ UNCHANGED <<path_segments, segment_count, first_segment, last_point,
                   last_control_point, t, stream, free, n, classified, result, single,
                   written>>

\* `return` of svg_to_geometry_collection
Return(res) ==
    /\ element_result' = res
    /\ pc' = "returned"

\* No branch returns: the loop goes on to the next event.
NextEvent ==
    /\ element_result' = element_result
    /\ pc' = pc

PathElement ==
    \E e \in Elements :
        /\ e.name = "path"
        /\ ReadEvent(e)
        /\ IF HasAttribute(e, "d") THEN Return(e.attrs["d"].parsed) ELSE NextEvent

PolygonElement ==
    \E e \in Elements :
        /\ e.name = "polygon"
        /\ ReadEvent(e)
        /\ IF HasAttribute(e, "points")
           THEN Return(IntoCollection(svg_polygon_to_geometry(e.attrs["points"].pairs)))
           ELSE NextEvent

PolylineElement ==
    \E e \in Elements :
        /\ e.name = "polyline"
        /\ ReadEvent(e)
        /\ IF HasAttribute(e, "points")
           THEN Return(IntoCollection(svg_polyline_to_geometry(e.attrs["points"].pairs)))
           ELSE NextEvent

RectElement ==
    \E e \in Elements :
        /\ e.name = "rect"
        /\ ReadEvent(e)
        /\ IF SomeBadNumber(e, RectAttributes) THEN Return(Err("ParseError"))
           ELSE IF ~HasAttribute(e, "x") THEN Return(Err("InvalidSvgError"))
           ELSE IF ~HasAttribute(e, "y") THEN Return(Err("InvalidSvgError"))
           ELSE IF ~HasAttribute(e, "width") THEN Return(Err("InvalidSvgError"))
           ELSE IF ~HasAttribute(e, "height") THEN Return(Err("InvalidSvgError"))
           ELSE Return(IntoCollection(svg_rect_to_geometry(
                    e.attrs["x"].v, e.attrs["y"].v, e.attrs["width"].v, e.attrs["height"].v)))

LineElement ==
    \E e \in Elements :
        /\ e.name = "line"
        /\ ReadEvent(e)
        /\ IF SomeBadNumber(e, LineAttributes) THEN Return(Err("ParseError"))
           ELSE IF ~HasAttribute(e, "x1") THEN Return(Err("InvalidSvgError"))
           ELSE IF ~HasAttribute(e, "y1") THEN Return(Err("InvalidSvgError"))
           ELSE IF ~HasAttribute(e, "x2") THEN Return(Err("InvalidSvgError"))
           ELSE IF ~HasAttribute(e, "y2") THEN Return(Err("InvalidSvgError"))
           ELSE Return(OkCollection(<<svg_line_to_geometry(
                    e.attrs["x1"].v, e.attrs["y1"].v, e.attrs["x2"].v, e.attrs["y2"].v)>>))

\* A StartElement of any other name: no branch is taken.
OtherElement ==
    \E e \in Elements :
        /\ e.name \notin {"path", "polygon", "polyline", "rect", "line"}
        /\ ReadEvent(e)
        /\ NextEvent

\* The events are exhausted: the code after the loop.
EndOfDocument ==
    /\ pc = "events"
    /\ Return(Err("SvgInvalidType"))
    /\ UNCHANGED <<path_segments, segment_count, first_segment, last_point,
                   last_control_point, t, stream, free, n, classified, result, single,
                   written, element, events>>

ElementNext ==
    \/ PathElement
    \/ PolygonElement
    \/ PolylineElement
    \/ RectElement
    \/ LineElement
    \/ OtherElement
    \/ EndOfDocument

ElementSpec == ElementInit /\ [][ElementNext]_vars

----------------------------------------------------------------------------
\* Vocabulary of the properties.

\* svg_d_path_to_geometry_collection has returned Ok
ReturnedOk == pc = "done" /\ result.tag = "Ok"

First(p) == p[1]

Last(p) == p[Len(p)]

\* The rows of the classification table.
TwoPoints(p) == Len(p) = 2

OpenChain(p) == Len(p) >= 3 /\ First(p) # Last(p)

ClosedRing(p) == Len(p) >= 3 /\ First(p) = Last(p)

\* A subpath the classifier takes for a ring: no Segment, first equal to last.
RingCandidate(p) == Len(p) # 0 /\ Len(p) # 2 /\ First(p) = Last(p)

\* Every subpath has a row in the classification table.
AllClassified == \A i \in 1 .. Len(path_segments) : Len(path_segments[i]) >= 2

Segments == SelectSeq(path_segments, TwoPoints)

Chains == SelectSeq(path_segments, OpenChain)

Rings == SelectSeq(path_segments, RingCandidate)

\* How many of the three kinds the subpaths fall into.
KindCount ==
    Cardinality({k \in {"Segments", "Chains", "Rings"} :
        \/ k = "Segments" /\ Segments # <<>>
        \/ k = "Chains" /\ Chains # <<>>
        \/ k = "Rings" /\ Rings # <<>>})

SegmentAsLine(p) == [type |-> "Line", start |-> p[1], end |-> p[2]]

\* The entry of each kind: the scalar form of one element, the multi form of several.
SegmentsEntry ==
    IF Len(Segments) = 1 THEN SegmentAsLine(Segments[1])
    ELSE [type |-> "MultiLineString", line_strings |-> Segments]

ChainsEntry ==
    IF Len(Chains) = 1 THEN [type |-> "LineString", coords |-> Chains[1]]
    ELSE [type |-> "MultiLineString", line_strings |-> Chains]

\* The ring-derived polygon: the first ring candidate, without inner boundaries.
RingsEntry == [type |-> "Polygon", exterior |-> Rings[1], interiors |-> <<>>]

\* The boundaries (outer and inner) of the polygons of a geometry.
BoundariesOfPolygon(g) == {g.exterior} \cup {g.interiors[i] : i \in 1 .. Len(g.interiors)}

BoundariesOf(g) ==
    IF g.type = "Polygon" THEN BoundariesOfPolygon(g)
    ELSE IF g.type = "MultiPolygon"
    THEN UNION {BoundariesOfPolygon(g.polys[i]) : i \in 1 .. Len(g.polys)}
    ELSE {}

ResultBoundaries == UNION {BoundariesOf(result.gc[i]) : i \in 1 .. Len(result.gc)}

\* An axis-aligned rectangle, closed on its first corner.
Xs(r) == {X(r[i]) : i \in 1 .. Len(r)}

Ys(r) == {Y(r[i]) : i \in 1 .. Len(r)}

Min(S) == CHOOSE v \in S : \A w \in S : v <= w

Max(S) == CHOOSE v \in S : \A w \in S : v >= w

IsRectangle(r) ==
    /\ Len(r) = 5
    /\ First(r) = Last(r)
    /\ Cardinality(Xs(r)) = 2
    /\ Cardinality(Ys(r)) = 2
    /\ Cardinality({r[i] : i \in 1 .. 4}) = 4
    /\ \A i \in 1 .. 4 : X(r[i]) = X(r[i + 1]) \/ Y(r[i]) = Y(r[i + 1])

\* The ring inner lies inside the rectangle outer: all its vertices do.
LiesInside(inner, outer) ==
    /\ IsRectangle(outer)
    /\ Len(inner) >= 4
    /\ First(inner) = Last(inner)
    /\ \A i \in 1 .. Len(inner) :
        /\ Min(Xs(outer)) < X(inner[i]) /\ X(inner[i]) < Max(Xs(outer))
        /\ Min(Ys(outer)) < Y(inner[i]) /\ Y(inner[i]) < Max(Ys(outer))

----------------------------------------------------------------------------
\* C1: a path of two closed straight-line subpaths, the second ring inside the
\* first, parses to exactly one geometry: the Polygon whose exterior is the
\* first ring and whose interior list is exactly the second ring; the
\* single-geometry entry point returns that Polygon.
C1_NestedRingsGivePolygonWithHole ==
    (/\ ReturnedOk
     /\ Len(path_segments) = 2
     /\ LiesInside(path_segments[2], path_segments[1]))
    => /\ result.gc = <<[type |-> "Polygon", exterior |-> path_segments[1],
                         interiors |-> <<path_segments[2]>>]>>
       /\ single.tag = "Ok"
       /\ single.geom = result.gc[1]

C3_OneEntryPerKind ==
    (ReturnedOk /\ AllClassified /\ KindCount > 1)
    => result.gc =
         (IF Segments # <<>> THEN <<SegmentsEntry>> ELSE <<>>)
         \o (IF Chains # <<>> THEN <<ChainsEntry>> ELSE <<>>)
         \o (IF Rings # <<>> THEN <<RingsEntry>> ELSE <<>>)

C4_WitnessMulti ==
    /\ ReturnedOk
    /\ KindCount = 1
    /\ Len(Segments) >= 2
    /\ result.gc[1].type = "MultiLineString"

\* C5: the single-geometry entry point fails with the
\* collection-for-single-geometry error whenever the path resolves to more than
\* one geometry (subpaths of more than one kind), and returns Ok only when it
\* resolves to exactly one (stated for the paths all of whose subpaths have two
\* or more points).
C5_SingleEntryPointRejectsCollections ==
    (ReturnedOk /\ AllClassified)
    => /\ KindCount > 1 =>
            /\ single.tag = "Err"
            /\ single.err = "SvgGeomCollectionForGeometry"
       /\ single.tag = "Ok" => KindCount = 1

\* C6: a command stream that produces no subpath (no MoveTo) makes
\* svg_d_path_to_geometry_collection return the invalid-input error.
C6_NoSubpathIsInvalidInput ==
    (pc = "done" /\ path_segments = <<>>)
    => /\ result.tag = "Err"
       /\ result.err = "InvalidSvgError"

\* C7: the classifier maps a subpath by point count and closure: 2 points give a
\* Segment whatever the points are, 3 or more points with first # last an open
\* Chain, 3 or more points with first = last a ring candidate; no subpath of 0
\* points reaches a vector.
C7_ClassificationTable ==
    ReturnedOk
    => /\ lines = [i \in 1 .. Len(Segments) |-> SegmentAsLine(Segments[i])]
       /\ line_strings = SelectSeq(path_segments, OpenChain)
       /\ \A i \in 1 .. Len(line_strings) : Len(line_strings[i]) >= 3
       /\ SelectSeq(poly_line_strings, ClosedRing) = SelectSeq(path_segments, ClosedRing)
       /\ \A i \in 1 .. Len(poly_line_strings) : Len(poly_line_strings[i]) # 0

\* C7 witness: a path with a segment of two equal points, an open chain and a
\* closed ring has been classified.
C7_Witness ==
    /\ ReturnedOk
    /\ \E i \in 1 .. Len(lines) : lines[i].start = lines[i].end
    /\ \E i \in 1 .. Len(line_strings) : Len(line_strings[i]) >= 3
    /\ \E i \in 1 .. Len(poly_line_strings) : Len(poly_line_strings[i]) >= 4

\* C8: a subpath of a parsed path is a Polygon boundary of the result if and
\* only if its first and last coordinates are equal (stated for the subpaths
\* of three or more points, which the classifier tells apart by closure alone,
\* in the paths all of whose subpaths have two or more points).
C8_PolygonIffClosed ==
    (ReturnedOk /\ AllClassified)
    => \A i \in 1 .. Len(path_segments) :
          Len(path_segments[i]) >= 3
          => ((path_segments[i] \in ResultBoundaries)
              <=> (First(path_segments[i]) = Last(path_segments[i])))

\* The step consumes a token of kind k without panicking.
Arm(k) == pc = "loop" /\ pc' = "loop" /\ n' = n + 1 /\ t'.kind = k

\* The active subpath of the step's arm, before and after.
ActiveBefore == path_segments[segment_count + 1]

ActiveAfter == path_segments'[segment_count + 1]

\* C9 as claimed: ClosePath on a subpath whose last coordinate already equals
\* its first leaves the subpath's coordinate sequence as it was (stated for
\* the subpaths of three or more points).
C9_CloseIsIdempotent ==
    [][(/\ Arm("ClosePath")
        /\ Len(ActiveBefore) >= 3
        /\ Last(ActiveBefore) = First(ActiveBefore))
       => ActiveAfter = ActiveBefore]_vars

\* C9 amended: ClosePath appends one copy of the subpath's first coordinate
\* also when the last coordinate already equals the first; the subpath grows
\* by that one coordinate and the others are unchanged.
C9_CloseAlwaysAppends ==
    [][Arm("ClosePath")
       => /\ ActiveAfter = Append(ActiveBefore, First(ActiveBefore))
          /\ Len(path_segments') = Len(path_segments)
          /\ \A i \in 1 .. Len(path_segments) :
               i # segment_count + 1 => path_segments'[i] = path_segments[i]]_vars

\* C9 witness: a ring of five points that was already closed has been closed
\* again by ClosePath, and ends with two copies of its first coordinate.
C9_Witness ==
    /\ pc = "loop"
    /\ t.kind = "ClosePath"
    /\ LET p == path_segments[segment_count + 1]
       IN  /\ Len(p) = 6
           /\ p[5] = p[1]
           /\ p[6] = p[1]
           /\ p[4] # p[1]

CurveKinds == {"CurveTo", "SmoothCurveTo", "Quadratic", "SmoothQuadratic"}

CurveArmStep == \E k \in CurveKinds : Arm(k)

\* The point at k / NSamples of the Bezier curve with the control polygon w,
\* by the Bernstein form; the points of w are whole multiples of Unit.
Bernstein3(k, w) ==
    LET a == NSamples - k
        u(j) == w[1][j] \div Unit
        v(j) == w[2][j] \div Unit
        z(j) == w[3][j] \div Unit
        c(j) == (a * a) * u(j) + (2 * a * k) * v(j) + (k * k) * z(j)
    IN  Coord(c(1) * NSamples, c(2) * NSamples)

Bernstein4(k, w) ==
    LET a == NSamples - k
        u(j) == w[1][j] \div Unit
        v(j) == w[2][j] \div Unit
        y(j) == w[3][j] \div Unit
        z(j) == w[4][j] \div Unit
        c(j) == (a * a * a) * u(j) + (3 * a * a * k) * v(j)
                + (3 * a * k * k) * y(j) + (k * k * k) * z(j)
    IN  Coord(c(1), c(2))

\* The control polygon of the curve a step draws, from the cursor before the
\* step, the token, and the control point the step stored.
StartOfCurve == unwrap_or(last_point, zero_coord)

Resolved(x, y, abs) ==
    IF abs THEN Coord(x, y) ELSE Coord(X(StartOfCurve) + x, Y(StartOfCurve) + y)

ControlPolygon ==
    LET tk == t'
        end == Resolved(tk.x, tk.y, tk.abs)
        stored == last_control_point'[1]
    IN  IF tk.kind = "CurveTo"
        THEN <<StartOfCurve, Resolved(tk.x1, tk.y1, tk.abs), stored, end>>
        ELSE IF tk.kind = "SmoothCurveTo"
        THEN <<StartOfCurve,
               Coord(2 * X(StartOfCurve) - X(unwrap_or(last_control_point, zero_coord)),
                     2 * Y(StartOfCurve) - Y(unwrap_or(last_control_point, zero_coord))),
               stored, end>>
        ELSE <<StartOfCurve, stored, end>>

CurvePoint(k) ==
    IF Len(ControlPolygon) = 4 THEN Bernstein4(k, ControlPolygon)
    ELSE Bernstein3(k, ControlPolygon)

\* The coordinates the step appended to the active subpath.
Appended == SubSeq(ActiveAfter, Len(ActiveBefore) + 1, Len(ActiveAfter))

\* C10 as claimed: a curve command appends NSamples interior samples and then
\* the end point: NSamples + 1 coordinates.
C10_CurveAppends101 ==
    [][CurveArmStep
       => /\ Len(ActiveAfter) = Len(ActiveBefore) + NSamples + 1
          /\ SubSeq(ActiveAfter, 1, Len(ActiveBefore)) = ActiveBefore]_vars

\* C10 amended: a curve command appends NSamples - 1 = 99 interior samples, the
\* points of the curve at k / NSamples for k = 1 .. 99 in this order, and then
\* the end point once: NSamples = 100 coordinates.
C10_CurveAppends100 ==
    [][CurveArmStep
       => /\ Len(ActiveAfter) = Len(ActiveBefore) + NSamples
          /\ SubSeq(ActiveAfter, 1, Len(ActiveBefore)) = ActiveBefore
          /\ \A k \in 1 .. (NSamples - 1) : Appended[k] = CurvePoint(k)
          /\ Appended[NSamples] = Resolved(t'.x, t'.y, t'.abs)]_vars

\* C10 witness: a cubic curve was drawn from the MoveTo point of a subpath,
\* which now holds that point, the samples and the end point.
C10_Witness ==
    /\ pc = "loop"
    /\ t.kind = "CurveTo"
    /\ LET p == path_segments[segment_count + 1]
       IN  /\ Len(p) = NSamples + 1
           /\ Last(p) = last_point[1]
           /\ p[NSamples] # Last(p)

----------------------------------------------------------------------------
\* Vocabulary of the writer's properties.

\* The writer's calls have returned.
Written == svg # None /\ svg_string # None

\* How often the character c occurs in text.
Count(text, c) == Cardinality({i \in 1 .. Len(text) : text[i] = c})

\* The two numbers of a point, separated by a space.
PointText(c) == Display(X(c)) \o <<" ">> \o Display(Y(c))

\* The points of a ring, each after the first preceded by the command cmd.
RECURSIVE PointsText(_, _)
PointsText(ring, cmd) ==
    IF Len(ring) = 0 THEN <<>>
    ELSE IF Len(ring) = 1 THEN PointText(ring[1])
    ELSE PointsText(SubSeq(ring, 1, Len(ring) - 1), cmd)
         \o cmd \o PointText(ring[Len(ring)])

\* The rings in order, each started by the move command.
RECURSIVE RingsText(_)
RingsText(rings) ==
    IF Len(rings) = 0 THEN <<>>
    ELSE RingsText(SubSeq(rings, 1, Len(rings) - 1))
         \o <<"M">> \o PointsText(rings[Len(rings)], <<"L">>)

\* The texts in order, sep between one and the next.
RECURSIVE Separated(_, _)
Separated(texts, sep) ==
    IF Len(texts) = 0 THEN <<>>
    ELSE IF Len(texts) = 1 THEN texts[1]
    ELSE Separated(SubSeq(texts, 1, Len(texts) - 1), sep) \o sep \o texts[Len(texts)]

\* The lines of a text: its pieces between the newlines.
RECURSIVE TextLines(_)
TextLines(text) ==
    IF \A i \in 1 .. Len(text) : text[i] # "\n" THEN <<text>>
    ELSE LET k == CHOOSE i \in 1 .. Len(text) :
                     text[i] = "\n" /\ \A j \in 1 .. (i - 1) : text[j] # "\n"
         IN  <<SubSeq(text, 1, k - 1)>> \o TextLines(SubSeq(text, k + 1, Len(text)))

RingsOf(poly) == <<poly.exterior>> \o poly.interiors

\* C11: a Polygon with a non-empty exterior serializes in display mode to one
\* path element, `<path d="` the data string `"/>`, and in fragment mode to the
\* data string alone; the data string is, for the exterior and then every
\* interior ring in order, "M" and the ring's points joined by "L", and it
\* holds no close command.
C11_PolygonIsOnePathElement ==
    (geometry.type = "Polygon" /\ Len(geometry.exterior) # 0)
    => /\ svg # None =>
            /\ svg[1] = <<"<", "p", "a", "t", "h", " ", "d", "=", "\"">>
                        \o RingsText(RingsOf(geometry)) \o <<"\"", "/", ">">>
            /\ Count(svg[1], "<") = 1
            /\ Count(svg[1], "Z") = 0 /\ Count(svg[1], "z") = 0
       /\ svg_string # None => svg_string[1] = RingsText(RingsOf(geometry))

\* C11 witness: the polygon with a hole of the writer's tests has been written
\* in both modes, to the element the test expects.
C11_Witness ==
    /\ geometry = Polygon(OuterRing, <<InnerRing>>)
    /\ Written
    /\ svg[1] =
        <<"<", "p", "a", "t", "h", " ", "d", "=", "\"", "M", "0", " ", "0",
          "L", "0", " ", "6", "0", "L", "6", "0", " ", "6", "0", "L", "6",
          "0", " ", "0", "L", "0", " ", "0", "M", "1", "0", " ", "1", "0",
          "L", "4", "0", " ", "1", "L", "4", "0", " ", "4", "0", "L", "1",
          "0", ".", "5", " ", "4", "0", "L", "1", "0", " ", "1", "0", "\"",
          "/", ">">>
    /\ Len(svg_string[1]) = Len(svg[1]) - 12

\* The outputs of the members of a collection, in member order.
MemberSvgs ==
    IF geometry.type = "GeometryCollection"
    THEN [i \in 1 .. Len(geometry.geoms) |-> Geometry_to_svg(geometry.geoms[i])]
    ELSE IF geometry.type = "MultiPolygon"
    THEN [i \in 1 .. Len(geometry.polys) |-> to_svg(geometry.polys[i])]
    ELSE [i \in 1 .. Len(geometry.line_strings) |->
             to_svg(LineString(geometry.line_strings[i]))]

MemberSvgStrings ==
    IF geometry.type = "GeometryCollection"
    THEN [i \in 1 .. Len(geometry.geoms) |-> Geometry_to_svg_string(geometry.geoms[i])]
    ELSE IF geometry.type = "MultiPolygon"
    THEN [i \in 1 .. Len(geometry.polys) |-> to_svg_string(geometry.polys[i])]
    ELSE [i \in 1 .. Len(geometry.line_strings) |->
             to_svg_string(LineString(geometry.line_strings[i]))]

CollectionTypes == {"GeometryCollection", "MultiPolygon", "MultiLineString"}

\* C12: a GeometryCollection, MultiPolygon or MultiLineString serializes to the
\* outputs of its members, each serialized on its own, in member order, with a
\* newline between one and the next in display mode and nothing between them
\* in fragment mode.
C12_CollectionsJoinMembers ==
    geometry.type \in CollectionTypes
    => /\ svg # None => svg[1] = Separated(MemberSvgs, <<"\n">>)
       /\ svg_string # None => svg_string[1] = Separated(MemberSvgStrings, <<>>)

\* C12 witness: the collection of a LineString and a Polygon has been written:
\* two elements on two lines in display mode, one fragment without a newline.
C12_Witness ==
    /\ geometry = GeometryCollection(
           <<LineString(<<P(1, 1), P(4, 1), P(4, 4), Coord(OneAndHalf, F(4))>>),
             Polygon(Square, <<>>)>>)
    /\ Written
    /\ svg[1] =
        <<"<", "p", "o", "l", "y", "l", "i", "n", "e", " ", "p", "o", "i",
          "n", "t", "s", "=", "\"", "1", ",", "1", " ", "4", ",", "1", " ",
          "4", ",", "4", " ", "1", ".", "5", ",", "4", "\"", "/", ">",
          "\n", "<", "p", "a", "t", "h", " ", "d", "=", "\"", "M", "1",
          " ", "1", "L", "4", " ", "1", "L", "4", " ", "4", "L", "1", " ",
          "4", "L", "1", " ", "1", "\"", "/", ">">>
    /\ Count(svg_string[1], "\n") = 0
    /\ Count(svg_string[1], "M") = 2

\* A GeometryCollection without members, a MultiPolygon without polygons, a
\* MultiLineString without lines, a Polygon with an empty exterior, a
\* LineString without points.
IsEmptyGeometry(g) ==
    \/ g.type = "GeometryCollection" /\ Len(g.geoms) = 0
    \/ g.type = "MultiPolygon" /\ Len(g.polys) = 0
    \/ g.type = "MultiLineString" /\ Len(g.line_strings) = 0
    \/ g.type = "Polygon" /\ Len(g.exterior) = 0
    \/ g.type = "LineString" /\ Len(g.coords) = 0

\* C13: every empty geometry or collection serializes to the empty string, in
\* display mode and in fragment mode.
C13_EmptySerializesToEmpty ==
    IsEmptyGeometry(geometry)
    => /\ svg # None => svg[1] = <<>>
       /\ svg_string # None => svg_string[1] = <<>>

\* C13 witness: a LineString without points has been written in both modes.
C13_Witness ==
    /\ geometry = LineString(<<>>)
    /\ svg = Some(<<>>)
    /\ svg_string = Some(<<>>)

\* A Segment, or a Chain with points.
IsSegmentOrChain(g) ==
    \/ g.type = "Line"
    \/ g.type = "LineString" /\ Len(g.coords) # 0

\* C14: in display mode every Segment member and every non-empty Chain member
\* of a GeometryCollection is written as a non-empty element: the line of the
\* output that belongs to the member is not empty.
C14_SegmentMembersAreWritten ==
    (geometry.type = "GeometryCollection" /\ svg # None
     /\ \A i \in 1 .. Len(geometry.geoms) : IsSegmentOrChain(geometry.geoms[i]))
    => \A i \in 1 .. Len(geometry.geoms) :
          /\ Len(TextLines(svg[1])) >= i
          /\ TextLines(svg[1])[i] # <<>>

\* C15: to_svg_string of a Line is "M", start.x, start.y, "L", end.x, end.y,
\* and parsing it as path data gives back the Line with the same start and end.
C15_SegmentFragmentRoundTrips ==
    geometry.type = "Line"
    => /\ svg_string # None =>
            svg_string[1] = <<"M">> \o PointText(geometry.start)
                            \o <<"L">> \o PointText(geometry.end)
       /\ pc = "done" =>
            /\ result.tag = "Ok"
            /\ result.gc = <<geometry>>

\* A ring: closed, with three or more points.
IsRing(r) == Len(r) >= 3 /\ r[1] = r[Len(r)]

\* A polygon whose exterior and interiors are rings.
RingClosedPolygon(g) ==
    /\ g.type = "Polygon"
    /\ IsRing(g.exterior)
    /\ \A i \in 1 .. Len(g.interiors) : IsRing(g.interiors[i])

\* C16: for a polygon of straight rings, with zero or more interior rings,
\* serializing it, parsing the fragment as a path and serializing the result
\* again gives the same text, and the parsed polygon has the same rings in the
\* same order.
C16_StraightPolygonRoundTrips ==
    (RingClosedPolygon(geometry) /\ pc = "done")
    => /\ result.tag = "Ok"
       /\ Len(result.gc) = 1
       /\ result.gc[1].type = "Polygon"
       /\ RingsOf(result.gc[1]) = RingsOf(geometry)
       /\ svg_string_again # None => svg_string_again = svg_string

\* The five shape elements svg_to_geometry_collection recognizes, and the
\* attributes each requires.
RecognizedNames == {"path", "polygon", "polyline", "rect", "line"}

RequiredAttributes(name) ==
    IF name = "path" THEN {"d"}
    ELSE IF name \in {"polygon", "polyline"} THEN {"points"}
    ELSE IF name = "rect" THEN RectAttributes
    ELSE LineAttributes

LacksRequired(e) == \E a \in RequiredAttributes(e.name) : ~HasAttribute(e, a)

\* C17: for a document of one recognized shape element that lacks a required
\* attribute (its other attributes well-formed), svg_to_geometry_collection
\* returns the invalid-input error.
C17_MissingAttributeIsInvalidInput ==
    (/\ pc = "returned"
     /\ events = 1
     /\ element.name \in RecognizedNames
     /\ LacksRequired(element)
     /\ ~SomeBadNumber(element, DOMAIN element.attrs))
    => element_result = Err("InvalidSvgError")

\* C18: when the tokenizer yields an Err item the call returns an error value
\* and no geometry.
C18_TokenizerErrorIsReturned ==
    (pc = "done" /\ t.kind = "Err")
    => /\ result.tag = "Err"
       /\ result.gc = <<>>

\* The ring crosses the rectangle outer: it has a vertex inside and a vertex
\* outside of it.
Outside(c, outer) ==
    \/ X(c) < Min(Xs(outer)) \/ X(c) > Max(Xs(outer))
    \/ Y(c) < Min(Ys(outer)) \/ Y(c) > Max(Ys(outer))

StrictlyInside(c, outer) ==
    /\ Min(Xs(outer)) < X(c) /\ X(c) < Max(Xs(outer))
    /\ Min(Ys(outer)) < Y(c) /\ Y(c) < Max(Ys(outer))

Crosses(ring, outer) ==
    /\ IsRectangle(outer)
    /\ Len(ring) >= 4
    /\ First(ring) = Last(ring)
    /\ \E i \in 1 .. Len(ring) : StrictlyInside(ring[i], outer)
    /\ \E i \in 1 .. Len(ring) : Outside(ring[i], outer)

\* to_svg of the collection the reader returned
ResultSvg == GeometryCollection_to_svg(GeometryCollection(result.gc))

\* C19: a path of two closed rings, the second crossing the boundary of the
\* first, parses to more than one polygon, and to_svg of the parsed collection
\* is more than one path element, one per polygon, with newlines between them.
C19_CrossingRingsGiveSeveralPolygons ==
    (/\ ReturnedOk
     /\ Len(path_segments) = 2
     /\ Crosses(path_segments[2], path_segments[1]))
    => /\ Len(polygons) > 1
       /\ Count(ResultSvg, "<") = Len(polygons)
       /\ Count(ResultSvg, "\n") = Len(polygons) - 1

\* The step executes a smooth curve command while no control point is stored.
SmoothWithoutControl ==
    /\ Arm("SmoothCurveTo") \/ Arm("SmoothQuadratic")
    /\ last_control_point = None
    /\ last_point # None

\* The control polygon of the step's curve if its first control point is the
\* current point.
DegenerateControlPolygon ==
    IF t'.kind = "SmoothQuadratic"
    THEN <<StartOfCurve, StartOfCurve, Resolved(t'.x, t'.y, t'.abs)>>
    ELSE <<StartOfCurve, StartOfCurve, Resolved(t'.x2, t'.y2, t'.abs),
           Resolved(t'.x, t'.y, t'.abs)>>

\* C20: a smooth curve command executed while no control point is stored
\* draws the curve whose first control point is the current point, whatever
\* the current point is; the smooth quadratic command stores that point.
C20_SmoothWithoutControlUsesCurrentPoint ==
    [][SmoothWithoutControl
       => /\ t'.kind = "SmoothQuadratic" => last_control_point' = Some(StartOfCurve)
          /\ \A k \in 1 .. (NSamples - 1) :
               Appended[k] = (IF t'.kind = "SmoothQuadratic"
                              THEN Bernstein3(k, DegenerateControlPolygon)
                              ELSE Bernstein4(k, DegenerateControlPolygon))]_vars

----------------------------------------------------------------------------
\* The cursor: last_point and last_control_point across the arms.

\* C21: MoveTo clears the stored last control point: after every MoveTo step
\* the cursor holds no control point, so that a smooth curve command that
\* directly follows never reflects the control point of an earlier subpath.
C21_MoveToClearsControlPoint ==
    [][Arm("MoveTo") => last_control_point' = None]_vars

\* The first control point of a smooth curve step when a control point is
\* stored: 2 * current - stored on each axis.
ReflectedControl ==
    Coord(2 * X(StartOfCurve) - X(last_control_point[1]),
          2 * Y(StartOfCurve) - Y(last_control_point[1]))

\* The curve points a step appended are those of the control polygon w.
AppendedCurveOf(w) ==
    \A k \in 1 .. (NSamples - 1) :
        Appended[k] = (IF Len(w) = 4 THEN Bernstein4(k, w) ELSE Bernstein3(k, w))

\* C22: a cubic and a smooth cubic step store their second control point, a
\* quadratic step its only control point, a smooth quadratic step the control
\* point it reflected, and no other step writes the stored control point; a
\* smooth step executed while a control point is stored draws the curve whose
\* first control point is 2 * current - stored on each axis.
C22_SmoothReflectsStoredControl ==
    [][/\ (Arm("CurveTo") \/ Arm("SmoothCurveTo"))
          => last_control_point' = Some(Resolved(t'.x2, t'.y2, t'.abs))
       /\ Arm("Quadratic")
          => last_control_point' = Some(Resolved(t'.x1, t'.y1, t'.abs))
       /\ (Arm("SmoothQuadratic") /\ last_control_point # None)
          => /\ last_control_point' = Some(ReflectedControl)
             /\ AppendedCurveOf(<<StartOfCurve, ReflectedControl,
                                  Resolved(t'.x, t'.y, t'.abs)>>)
       /\ (Arm("SmoothCurveTo") /\ last_control_point # None)
          => AppendedCurveOf(<<StartOfCurve, ReflectedControl,
                               Resolved(t'.x2, t'.y2, t'.abs),
                               Resolved(t'.x, t'.y, t'.abs)>>)
       /\ (pc = "loop" /\ pc' = "loop" /\ ~CurveArmStep)
          => last_control_point' = last_control_point]_vars

\* C22 witness: a smooth quadratic command directly followed a curve command
\* in the subpath of a MoveTo, and the control point it reflected and stored is
\* neither the point the curve started from nor the point it ended in.
C22_Witness ==
    /\ pc = "loop"
    /\ t.kind = "SmoothQuadratic"
    /\ LET p == path_segments[segment_count + 1]
       IN  /\ Len(p) = 2 * NSamples + 1
           /\ last_control_point # None
           /\ last_control_point[1] # p[NSamples + 1]
           /\ last_control_point[1] # Last(p)

\* The first control point the SmoothCurveTo arm computes: the stored control
\* point, or the origin when none is stored, reflected through the current
\* point.
SmoothFirstControl ==
    Coord(2 * X(StartOfCurve) - X(unwrap_or(last_control_point, zero_coord)),
          2 * Y(StartOfCurve) - Y(unwrap_or(last_control_point, zero_coord)))

\* C23: the target of a MoveTo or LineTo step, and the control points and the
\* end point of a curve step, are the token's values when it is absolute and
\* the token's values added to the current point of before the step, or to
\* (0, 0) when there is none, when it is relative; the resolved end point is
\* the last coordinate pushed and the new current point.
C23_RelativeResolvedAgainstCurrentPoint ==
    [][/\ (Arm("MoveTo") \/ Arm("LineTo"))
          => /\ last_point' = Some(Resolved(t'.x, t'.y, t'.abs))
             /\ Last(path_segments'[segment_count' + 1]) = Resolved(t'.x, t'.y, t'.abs)
       /\ CurveArmStep
          => /\ last_point' = Some(Resolved(t'.x, t'.y, t'.abs))
             /\ Appended[NSamples] = Resolved(t'.x, t'.y, t'.abs)
       /\ Arm("CurveTo")
          => /\ last_control_point' = Some(Resolved(t'.x2, t'.y2, t'.abs))
             /\ AppendedCurveOf(<<StartOfCurve,
                                  Resolved(t'.x1, t'.y1, t'.abs),
                                  Resolved(t'.x2, t'.y2, t'.abs),
                                  Resolved(t'.x, t'.y, t'.abs)>>)
       /\ Arm("SmoothCurveTo")
          => /\ last_control_point' = Some(Resolved(t'.x2, t'.y2, t'.abs))
             /\ AppendedCurveOf(<<StartOfCurve,
                                  SmoothFirstControl,
                                  Resolved(t'.x2, t'.y2, t'.abs),
                                  Resolved(t'.x, t'.y, t'.abs)>>)
       /\ Arm("Quadratic")
          => /\ last_control_point' = Some(Resolved(t'.x1, t'.y1, t'.abs))
             /\ AppendedCurveOf(<<StartOfCurve,
                                  Resolved(t'.x1, t'.y1, t'.abs),
                                  Resolved(t'.x, t'.y, t'.abs)>>)]_vars

\* C23 witness: a relative cubic command was executed at a current point other
\* than the origin; its end point and its second control point are the
\* token's values added to that point.
C23_Witness ==
    /\ pc = "loop"
    /\ t.kind = "CurveTo"
    /\ ~t.abs
    /\ LET p == path_segments[segment_count + 1]
       IN  /\ Len(p) = NSamples + 1
           /\ First(p) # zero_coord
           /\ Last(p) = Coord(X(First(p)) + t.x, Y(First(p)) + t.y)
           /\ last_point = Some(Last(p))
           /\ last_control_point = Some(Coord(X(First(p)) + t.x2, Y(First(p)) + t.y2))

\* C24: a HorizontalLineTo step appends one point whose y is the y of the
\* current point and whose x is the token's, added to the current x when the
\* token is relative; a VerticalLineTo step appends one point whose x is the x
\* of the current point and whose y is the token's, added to the current y
\* when the token is relative.  The current point is the origin when there is
\* none.  The point appended is the new current point.
C24_AxisCommandsKeepTheOtherAxis ==
    [][/\ Arm("HorizontalLineTo")
          => LET coord == Coord(IF t'.abs THEN t'.x ELSE X(StartOfCurve) + t'.x,
                                Y(StartOfCurve))
             IN  Appended = <<coord>> /\ last_point' = Some(coord)
       /\ Arm("VerticalLineTo")
          => LET coord == Coord(X(StartOfCurve),
                                IF t'.abs THEN t'.y ELSE Y(StartOfCurve) + t'.y)
             IN  Appended = <<coord>> /\ last_point' = Some(coord)]_vars

\* C24 witness: a relative VerticalLineTo was executed right after a MoveTo to
\* a point off both axes; the point appended has the x of the MoveTo point and
\* its y moved by the token's y.
C24_Witness ==
    /\ pc = "loop"
    /\ t.kind = "VerticalLineTo"
    /\ ~t.abs
    /\ LET p == path_segments[segment_count + 1]
       IN  /\ Len(p) = 2
           /\ X(p[1]) # 0
           /\ Y(p[1]) # 0
           /\ X(p[2]) = X(p[1])
           /\ Y(p[2]) = Y(p[1]) + t.y
           /\ Y(p[2]) # Y(p[1])
           /\ last_point = Some(p[2])

\* C25: a ClosePath step appends to the active subpath a copy of the first
\* coordinate of that subpath and makes it the current point; a relative
\* MoveTo or LineTo step taken right after a ClosePath step therefore resolves
\* against the first coordinate of the subpath that was closed.
C25_ClosePathReturnsToStart ==
    [][/\ Arm("ClosePath")
          => /\ Appended = <<First(ActiveBefore)>>
             /\ last_point' = Some(First(ActiveBefore))
       /\ (/\ t.kind = "ClosePath"
           /\ Arm("MoveTo") \/ Arm("LineTo")
           /\ ~t'.abs)
          => last_point' = Some(Coord(X(First(ActiveBefore)) + t'.x,
                                      Y(First(ActiveBefore)) + t'.y))]_vars

\* C25 witness: ClosePath was executed on a subpath that did not end in its
\* first coordinate; the subpath now ends with that coordinate, which is the
\* current point.
C25_Witness ==
    /\ pc = "loop"
    /\ t.kind = "ClosePath"
    /\ LET p == path_segments[segment_count + 1]
       IN  /\ Len(p) >= 3
           /\ p[Len(p) - 1] # First(p)
           /\ Last(p) = First(p)
           /\ last_point = Some(First(p))

\* C26: a step on an unsupported command (elliptical arc) raises no error,
\* leaves every subpath as it was, and clears the whole cursor: afterwards
\* neither a current point nor a last control point is stored.
C26_UnsupportedClearsCursor ==
    [][(pc = "loop" /\ n' = n + 1 /\ t'.kind = "EllipticalArc")
       => /\ pc' = "loop"
          /\ path_segments' = path_segments
          /\ last_point' = None
          /\ last_control_point' = None]_vars

\* The polygons of the collection returned.
ReturnedPolygons ==
    UNION {IF result.gc[i].type = "Polygon" THEN {result.gc[i]}
           ELSE IF result.gc[i].type = "MultiPolygon"
           THEN {result.gc[i].polys[j] : j \in 1 .. Len(result.gc[i].polys)}
           ELSE {} : i \in 1 .. Len(result.gc)}

\* C27: every Polygon returned has an exterior ring of at least three
\* coordinates whose first and last coordinates are equal; a subpath that is
\* only its MoveTo point is never returned as a Polygon.
C27_PolygonExteriorIsRing ==
    ReturnedOk
    => \A g \in ReturnedPolygons :
          /\ Len(g.exterior) >= 3
          /\ First(g.exterior) = Last(g.exterior)

SupportedKinds ==
    {"MoveTo", "LineTo", "HorizontalLineTo", "VerticalLineTo", "ClosePath"}
    \cup CurveKinds

\* C28: after every step on a supported command the current point is defined
\* and is the last coordinate of the active subpath, which is the subpath
\* opened most recently; a MoveTo step opens a subpath that holds its point
\* only, every other step extends the active subpath; every earlier subpath
\* is as it was.
C28_CurrentPointIsLastOfActiveSubpath ==
    [][(\E k \in SupportedKinds : Arm(k))
       => /\ last_point' # None
          /\ segment_count' + 1 = Len(path_segments')
          /\ last_point'[1] = Last(Last(path_segments'))
          /\ IF t'.kind = "MoveTo"
             THEN /\ Len(path_segments') = Len(path_segments) + 1
                  /\ Len(Last(path_segments')) = 1
                  /\ \A i \in 1 .. Len(path_segments) :
                       path_segments'[i] = path_segments[i]
             ELSE /\ Len(path_segments') = Len(path_segments)
                  /\ Len(Last(path_segments')) > Len(Last(path_segments))
                  /\ SubSeq(Last(path_segments'), 1, Len(Last(path_segments)))
                       = Last(path_segments)
                  /\ \A i \in 1 .. (Len(path_segments) - 1) :
                       path_segments'[i] = path_segments[i]]_vars

\* C28 witness: a LineTo was executed in the second of two subpaths; the
\* current point is the last coordinate of the second subpath and not that of
\* the first, which holds two or more coordinates.
C28_Witness ==
    /\ pc = "loop"
    /\ t.kind = "LineTo"
    /\ Len(path_segments) = 2
    /\ segment_count = 1
    /\ Len(path_segments[1]) >= 2
    /\ Len(path_segments[2]) >= 2
    /\ last_point = Some(Last(path_segments[2]))
    /\ Last(path_segments[2]) # Last(path_segments[1])

\* C29: whenever the call returns Ok the collection returned holds at least
\* one geometry, and the stream had at least one MoveTo.
C29_OkCollectionIsNotEmpty ==
    ReturnedOk
    => /\ Len(path_segments) >= 1
       /\ Len(result.gc) >= 1

\* C29 witness: the call returned Ok on a stream of two or more MoveTo
\* commands and nothing else; every subpath is its MoveTo point and the
\* collection holds one geometry.
C29_Witness ==
    /\ ReturnedOk
    /\ Len(path_segments) >= 2
    /\ \A i \in 1 .. Len(path_segments) : Len(path_segments[i]) = 1
    /\ Len(result.gc) = 1

LineKinds == {"LineTo", "HorizontalLineTo", "VerticalLineTo", "ClosePath"}

\* C30: a LineTo, HorizontalLineTo, VerticalLineTo or ClosePath step leaves
\* the stored last control point as it was; a smooth quadratic step that
\* follows one of them while a control point is stored reflects that control
\* point, which is the one of the most recent curve command, through the
\* current point and stores the reflection.
C30_LineCommandsKeepControlPoint ==
    [][/\ (\E k \in LineKinds : Arm(k))
          => last_control_point' = last_control_point
       /\ (/\ t.kind \in LineKinds
           /\ Arm("SmoothQuadratic")
           /\ last_control_point # None)
          => last_control_point' = Some(ReflectedControl)]_vars

\* C30 witness: "M0 0Q0 1 1 1L2 1T3 1" has been read; the smooth command that
\* followed the line to (2, 1) stored (4, 1), the control point (0, 1) of the
\* quadratic reflected through (2, 1).
C30_Witness ==
    /\ pc = "loop"
    /\ t.kind = "SmoothQuadratic"
    /\ LET p == path_segments[segment_count + 1]
       IN  /\ Len(p) = 2 * NSamples + 2
           /\ p[NSamples + 2] = P(2, 1)
           /\ last_control_point = Some(P(4, 1))
           /\ last_point = Some(P(3, 1))

====
